---- MODULE Spec2Model ----
(***************************************************************************)
(* The two CRUD services of the repository: the items service (main.py)    *)
(* and the notes service (notes.py).  Each is a process of its own with an *)
(* in-memory list and an id counter; a run is a run of one of the two.     *)
(* Every handler is an operator from (store, counter, request) to          *)
(* (store, counter, response); the actions apply the handlers.  Requests   *)
(* are handled one at a time.  datetime.now() is a clock that reads a new, *)
(* later value at each reading; a str is a sequence of characters.         *)
(***************************************************************************)
EXTENDS Integers, Sequences, FiniteSets, TLC

VARIABLES
    app,             \* which application the process serves: "main" or "notes"
    items_db,        \* main.py: items_db
    items_next_id,   \* main.py: next_id
    notes_db,        \* notes.py: notes_db
    notes_next_id,   \* notes.py: next_id
    req,             \* the last request handled: [op, ...its arguments]
    resp,            \* the response to it: [status, body]
    clock,           \* datetime.now(): the next reading of the clock
    creates,         \* history: number of creates that have succeeded
    deleted,         \* history: ids whose delete has succeeded
    returned,        \* history: for each id created and not deleted, the record
                     \* the create, or the last update since, returned
    threads          \* notes.py: the threads of the pool that are inside a handler,
                     \* each with its position and locals (used when requests overlap)

vars ==
    <<app, items_db, items_next_id, notes_db, notes_next_id, req, resp, clock, creates, deleted,
      returned, threads>>

(* ------------------------------ bounds --------------------------------- *)

\* Creates per run in Spec: the id counter is not advanced past MaxId + 1.
MaxId == 3

\* Notes in the store of the initial states of SpecFilter.
MaxNotes == 2

(* --------------------------- Python values ----------------------------- *)

\* Optional[T]: None is the empty set, a value v is {v}.  A field of a stored
\* record that the code assigns from an Optional (an item's description, a
\* note's tags) is kept as the Optional; a list is a sequence.
None == {}

Some(v) == {v}

Val(o) == CHOOSE v \in o : TRUE

Optional(S) == {None} \cup {Some(v) : v \in S}

\* A str is a sequence of one-character strings; "" is << >>.
UpperCase == <<"A","B","C","D","E","F","G","H","I","J","K","L","M",
               "N","O","P","Q","R","S","T","U","V","W","X","Y","Z">>

LowerCase == <<"a","b","c","d","e","f","g","h","i","j","k","l","m",
               "n","o","p","q","r","s","t","u","v","w","x","y","z">>

\* The lower-case letter of each upper-case letter (the ASCII letters).
LowerTable ==
    [c \in {UpperCase[i] : i \in 1..Len(UpperCase)} |->
        LowerCase[CHOOSE i \in 1..Len(UpperCase) : UpperCase[i] = c]]

\* str.lower() on one character.
LowerChar(c) == IF c \in DOMAIN LowerTable THEN LowerTable[c] ELSE c

\* str.lower()
lower(s) == [i \in 1..Len(s) |-> LowerChar(s[i])]

\* Python's `sub in s` on two str: substring test ("" is in every str).
StrIn(sub, s) ==
    \E k \in 0..(Len(s) - Len(sub)) : SubSeq(s, k + 1, k + Len(sub)) = sub

\* Python's `x in lst` on a list: some element equals x.
ListIn(x, lst) == \E i \in 1..Len(lst) : lst[i] = x

\* Python truthiness of an Optional[str]: None and "" are falsy.
Truthy(o) == o # None /\ Val(o) # << >>

\* list.pop(i) seen from the list: the list without its i-th element (1-based).
Pop(lst, i) == SubSeq(lst, 1, i - 1) \o SubSeq(lst, i + 1, Len(lst))

\* next((i for i, x in enumerate(db) if x["id"] == id), None): the first index
\* (1-based) whose record has the id, 0 standing for None.
FirstIndex(db, id) ==
    LET hits == {i \in 1..Len(db) : db[i].id = id}
    IN  IF hits = {} THEN 0 ELSE CHOOSE i \in hits : \A j \in hits : i <= j

\* What a handler hands back: the store and counter it leaves, and its response.
Result(db, nid, status, body) ==
    [db |-> db, next_id |-> nid, status |-> status, body |-> body]

(* --------------------------- request inputs ---------------------------- *)

\* Path parameters tried: each id may be not yet assigned, stored, or deleted.
Ids == 1..MaxId

Names == { << >>, <<"W">> }

Descriptions == { <<"d">> }

Prices == {1, 2}

ItemCreate == [name : Names, description : Optional(Descriptions), price : Prices]

\* The values updates set: an empty name, a description, another price.
NewNames == { << >> }

NewPrices == {2}

ItemUpdate ==
    [name : Optional(NewNames), description : Optional(Descriptions),
     price : Optional(NewPrices)]

Titles == { << >>, <<"a">> }

Contents == { << >>, <<"b">> }

TagLists == { << >>, << <<"x">> >> }

NoteCreate == [title : Titles, content : Contents, tags : Optional(TagLists)]

\* The values updates set: an empty title, a content, an empty list of tags.
NewTitles == { << >> }

NewContents == { <<"b">> }

NewTagLists == { << >> }

NoteUpdate ==
    [title : Optional(NewTitles), content : Optional(NewContents),
     tags : Optional(NewTagLists)]

Searches == Optional({ <<"A">> })

Tags == Optional({ <<"X">> })

(* ------------------------- main.py: the handlers ----------------------- *)

get_items(db, nid) == Result(db, nid, 200, db)

\* Mutant: the id is used as the position in the list.
get_item_byindex(db, nid, item_id) ==
    IF item_id \in 1..Len(db)
    THEN Result(db, nid, 200, db[item_id])
    ELSE Result(db, nid, 404, "Item not found")

get_item(db, nid, item_id) ==
    LET i == FirstIndex(db, item_id)
    IN  IF i = 0
        THEN Result(db, nid, 404, "Item not found")
        ELSE Result(db, nid, 200, db[i])

\* Mutant: the id is taken from the length of the list, not from the counter.
create_item_len(db, nid, item, now) ==
    LET new_item == [id |-> Len(db) + 1, name |-> item.name,
                     description |-> item.description,
                     price |-> item.price, created_at |-> now]
    IN  Result(Append(db, new_item), nid + 1, 200, new_item)

\* Mutant: `next_id += 1` is forgotten.
create_item_noinc(db, nid, item, now) ==
    LET new_item == [id |-> nid, name |-> item.name, description |-> item.description,
                     price |-> item.price, created_at |-> now]
    IN  Result(Append(db, new_item), nid, 200, new_item)

create_item(db, nid, item, now) ==
    LET new_item == [id |-> nid, name |-> item.name, description |-> item.description,
                     price |-> item.price, created_at |-> now]
    IN  Result(Append(db, new_item), nid + 1, 200, new_item)

\* Mutant: description is assigned without the `is not None` test.
update_item_overwrite(db, nid, item_id, item) ==
    LET item_index == FirstIndex(db, item_id)
        old == db[item_index]
        new == [old EXCEPT
                  !.name = IF item.name # None THEN Val(item.name) ELSE @,
                  !.description = item.description,
                  !.price = IF item.price # None THEN Val(item.price) ELSE @]
    IN  IF item_index = 0
        THEN Result(db, nid, 404, "Item not found")
        ELSE Result([db EXCEPT ![item_index] = new], nid, 200, new)

update_item(db, nid, item_id, item) ==
    LET item_index == FirstIndex(db, item_id)
        old == db[item_index]
        new == [old EXCEPT
                  !.name = IF item.name # None THEN Val(item.name) ELSE @,
                  !.description = IF item.description # None THEN item.description ELSE @,
                  !.price = IF item.price # None THEN Val(item.price) ELSE @]
    IN  IF item_index = 0
        THEN Result(db, nid, 404, "Item not found")
        ELSE Result([db EXCEPT ![item_index] = new], nid, 200, new)

\* Mutant: a delete hands the id counter back by one.
delete_item_rewind(db, nid, item_id) ==
    LET item_index == FirstIndex(db, item_id)
    IN  IF item_index = 0
        THEN Result(db, nid, 404, "Item not found")
        ELSE Result(Pop(db, item_index), nid - 1, 200, [message |-> db[item_index].name])

delete_item(db, nid, item_id) ==
    LET item_index == FirstIndex(db, item_id)
    IN  IF item_index = 0
        THEN Result(db, nid, 404, "Item not found")
        ELSE Result(Pop(db, item_index), nid, 200, [message |-> db[item_index].name])

(* ------------------------ notes.py: the handlers ----------------------- *)

\* Mutant: the id is one more than the largest id in the store.
create_note_max(db, nid, note, now) ==
    LET top == IF db = << >> THEN 0 ELSE db[Len(db)].id
        new_note == [id |-> top + 1, title |-> note.title, content |-> note.content,
                     tags |-> IF note.tags = None \/ note.tags = Some(<< >>)
                              THEN Some(<< >>) ELSE note.tags,
                     created_at |-> now]
    IN  Result(Append(db, new_note), top + 2, 200, new_note)

\* Mutant: `note.tags or []` without the `or []`.
create_note_keepnull(db, nid, note, now) ==
    LET new_note == [id |-> nid, title |-> note.title, content |-> note.content,
                     tags |-> note.tags, created_at |-> now]
    IN  Result(Append(db, new_note), nid + 1, 200, new_note)

create_note(db, nid, note, now) ==
    LET new_note == [id |-> nid, title |-> note.title, content |-> note.content,
                     tags |-> IF note.tags = None \/ note.tags = Some(<< >>)
                              THEN Some(<< >>) ELSE note.tags,
                     created_at |-> now]
    IN  Result(Append(db, new_note), nid + 1, 200, new_note)

\* Mutant: the search looks at the title only.
RECURSIVE SearchFilter_title(_, _)
SearchFilter_title(results, search) ==
    IF results = << >> THEN << >>
    ELSE LET n == Head(results)
             rest == SearchFilter_title(Tail(results), search)
         IN  IF StrIn(lower(search), lower(n.title))
             THEN <<n>> \o rest ELSE rest

\* [n for n in results if <search matches n>]
RECURSIVE SearchFilter(_, _)
SearchFilter(results, search) ==
    IF results = << >> THEN << >>
    ELSE LET n == Head(results)
             rest == SearchFilter(Tail(results), search)
         IN  IF \/ StrIn(lower(search), lower(n.title))
                \/ StrIn(lower(search), lower(n.content))
             THEN <<n>> \o rest ELSE rest

\* Mutant: the tag is looked for inside each tag, as the search is in the title.
RECURSIVE TagFilter_substring(_, _)
TagFilter_substring(results, tag) ==
    IF results = << >> THEN << >>
    ELSE LET n == Head(results)
             rest == TagFilter_substring(Tail(results), tag)
         IN  IF \E i \in 1..Len(Val(n.tags)) : StrIn(lower(tag), lower(Val(n.tags)[i]))
             THEN <<n>> \o rest ELSE rest

\* [n for n in results if tag.lower() in [t.lower() for t in n["tags"]]]
RECURSIVE TagFilter(_, _)
TagFilter(results, tag) ==
    IF results = << >> THEN << >>
    ELSE LET n == Head(results)
             rest == TagFilter(Tail(results), tag)
         IN  IF ListIn(lower(tag), [i \in 1..Len(Val(n.tags)) |-> lower(Val(n.tags)[i])])
             THEN <<n>> \o rest ELSE rest

\* Mutant: the tag comprehension runs over notes_db, not over results.
get_notes_fromdb(db, nid, search, tag) ==
    LET results0 == db
        results1 == IF Truthy(search) THEN SearchFilter(results0, Val(search)) ELSE results0
        results2 == IF Truthy(tag) THEN TagFilter(db, Val(tag)) ELSE results1
    IN  Result(db, nid, 200, results2)

get_notes(db, nid, search, tag) ==
    LET results0 == db
        results1 == IF Truthy(search) THEN SearchFilter(results0, Val(search)) ELSE results0
        results2 == IF Truthy(tag) THEN TagFilter(results1, Val(tag)) ELSE results1
    IN  Result(db, nid, 200, results2)

get_note(db, nid, note_id) ==
    LET i == FirstIndex(db, note_id)
    IN  IF i = 0
        THEN Result(db, nid, 404, "Note not found")
        ELSE Result(db, nid, 200, db[i])

\* Mutant: an update of an id that is not stored stores a new note under it.
update_note_upsert(db, nid, note_id, note) ==
    LET i == FirstIndex(db, note_id)
        n == db[i]
        new == [n EXCEPT
                  !.title = IF note.title # None THEN Val(note.title) ELSE @,
                  !.content = IF note.content # None THEN Val(note.content) ELSE @,
                  !.tags = IF note.tags # None THEN note.tags ELSE @]
        made == [id |-> note_id, title |-> << >>, content |-> << >>, tags |-> Some(<< >>),
                 created_at |-> 0]
    IN  IF i = 0
        THEN Result(Append(db, made), nid, 200, made)
        ELSE Result([db EXCEPT ![i] = new], nid, 200, new)

update_note(db, nid, note_id, note) ==
    LET i == FirstIndex(db, note_id)
        n == db[i]
        new == [n EXCEPT
                  !.title = IF note.title # None THEN Val(note.title) ELSE @,
                  !.content = IF note.content # None THEN Val(note.content) ELSE @,
                  !.tags = IF note.tags # None THEN note.tags ELSE @]
    IN  IF i = 0
        THEN Result(db, nid, 404, "Note not found")
        ELSE Result([db EXCEPT ![i] = new], nid, 200, new)

\* Mutant: pop() without the index, which removes the last note.
delete_note_poplast(db, nid, note_id) ==
    LET i == FirstIndex(db, note_id)
    IN  IF i = 0
        THEN Result(db, nid, 404, "Note not found")
        ELSE Result(Pop(db, Len(db)), nid, 200, [message |-> "Note deleted successfully"])

delete_note(db, nid, note_id) ==
    LET i == FirstIndex(db, note_id)
    IN  IF i = 0
        THEN Result(db, nid, 404, "Note not found")
        ELSE Result(Pop(db, i), nid, 200, [message |-> "Note deleted successfully"])

(* ------------------------------ the state ------------------------------ *)

NoRequest == [op |-> "none"]

NoResponse == [status |-> 0, body |-> "none"]

Init ==
    /\ app \in {"main", "notes"}
    /\ items_db = << >>
    /\ items_next_id = 1
    /\ notes_db = << >>
    /\ notes_next_id = 1
    /\ req = NoRequest
    /\ resp = NoResponse
    /\ clock = 0
    /\ creates = 0
    /\ deleted = {}
    /\ returned = << >>
    /\ threads = << >>

\* The store and counter of the running application.
db == IF app = "main" THEN items_db ELSE notes_db

next_id == IF app = "main" THEN items_next_id ELSE notes_next_id

\* The records returned so far, after request has been answered by r.
Returned(request, r) ==
    IF r.status # 200 THEN returned
    ELSE IF request.op \in {"create", "update"}
         THEN [k \in DOMAIN returned \cup {r.body.id} |->
                  IF k = r.body.id THEN r.body ELSE returned[k]]
    ELSE IF request.op = "delete"
         THEN [k \in DOMAIN returned \ {request.id} |-> returned[k]]
    ELSE returned

\* A handler's result r becomes the next state of the items service.
ItemsStep(request, r) ==
    /\ app = "main"
    /\ items_db' = r.db
    /\ items_next_id' = r.next_id
    /\ req' = request
    /\ resp' = [status |-> r.status, body |-> r.body]
    /\ clock' = IF request.op = "create" /\ r.status = 200 THEN clock + 1 ELSE clock
    /\ creates' = IF request.op = "create" /\ r.status = 200 THEN creates + 1 ELSE creates
    /\ deleted' = IF request.op = "delete" /\ r.status = 200
                  THEN deleted \cup {request.id} ELSE deleted
    /\ returned' = Returned(request, r)
    /\ UNCHANGED <<app, notes_db, notes_next_id, threads>>

NotesStep(request, r) ==
    /\ app = "notes"
    /\ notes_db' = r.db
    /\ notes_next_id' = r.next_id
    /\ req' = request
    /\ resp' = [status |-> r.status, body |-> r.body]
    /\ clock' = IF request.op = "create" /\ r.status = 200 THEN clock + 1 ELSE clock
    /\ creates' = IF request.op = "create" /\ r.status = 200 THEN creates + 1 ELSE creates
    /\ deleted' = IF request.op = "delete" /\ r.status = 200
                  THEN deleted \cup {request.id} ELSE deleted
    /\ returned' = Returned(request, r)
    /\ UNCHANGED <<app, items_db, items_next_id, threads>>

(* ------------------------- main.py: the requests ----------------------- *)

GetItems ==
    ItemsStep([op |-> "list"], get_items(items_db, items_next_id))

GetItem ==
    \E item_id \in Ids :
        ItemsStep([op |-> "get", id |-> item_id],
                  get_item(items_db, items_next_id, item_id))

CreateItem ==
    /\ items_next_id <= MaxId
    /\ \E item \in ItemCreate :
        ItemsStep([op |-> "create"],
                  create_item(items_db, items_next_id, item, clock))

UpdateItem ==
    \E item_id \in Ids, item \in ItemUpdate :
        ItemsStep([op |-> "update", id |-> item_id],
                  update_item(items_db, items_next_id, item_id, item))

DeleteItem ==
    \E item_id \in Ids :
        ItemsStep([op |-> "delete", id |-> item_id],
                  delete_item(items_db, items_next_id, item_id))

(* ------------------------ notes.py: the requests ----------------------- *)

CreateNote ==
    /\ notes_next_id <= MaxId
    /\ \E note \in NoteCreate :
        NotesStep([op |-> "create"],
                  create_note(notes_db, notes_next_id, note, clock))

\* GET /notes with its two query parameters drawn from S and T.
GetNotesOver(S, T) ==
    \E search \in S, tag \in T :
        NotesStep([op |-> "list", search |-> search, tag |-> tag],
                  get_notes(notes_db, notes_next_id, search, tag))

GetNotes == GetNotesOver(Searches, Tags)

GetNote ==
    \E note_id \in Ids :
        NotesStep([op |-> "get", id |-> note_id],
                  get_note(notes_db, notes_next_id, note_id))

UpdateNote ==
    \E note_id \in Ids, note \in NoteUpdate :
        NotesStep([op |-> "update", id |-> note_id],
                  update_note(notes_db, notes_next_id, note_id, note))

DeleteNote ==
    \E note_id \in Ids :
        NotesStep([op |-> "delete", id |-> note_id],
                  delete_note(notes_db, notes_next_id, note_id))

Next ==
    \/ GetItems
    \/ GetItem
    \/ CreateItem
    \/ UpdateItem
    \/ DeleteItem
    \/ CreateNote
    \/ GetNotes
    \/ GetNote
    \/ UpdateNote
    \/ DeleteNote

Spec == Init /\ [][Next]_vars

(* ------------------- GET /notes over stores of notes ------------------- *)

\* The texts of the notes and of the queries.
team_MEET == <<"t","e","a","m"," ","M","E","E","T">>

me == <<"m","e">>

Meets == <<"M","e","e","t","s">>

Meet == <<"M","e","e","t">>

EE == <<"E","E">>

work == <<"w","o","r","k">>

Work == <<"W","o","r","k">>

ork == <<"o","r","k">>

urgent == <<"u","r","g","e","n","t">>

homework == <<"h","o","m","e","w","o","r","k">>

FilterTitles == { team_MEET, me }

FilterContents == { << >>, Meets }

FilterTagLists == { << >>, <<work, urgent>>, <<homework>>, <<Work, << >> >> }

FilterSearches == Optional({ << >>, Meet, EE, <<"x">> })

FilterTags == Optional({ << >>, Work, ork })

\* The stores of n notes that n creates (and updates) leave: ids 1..n.
StoresOf(n) ==
    { [i \in 1..n |-> [id |-> i, title |-> f[i][1], content |-> f[i][2],
                       tags |-> Some(f[i][3]), created_at |-> i - 1]] :
        f \in [1..n -> FilterTitles \X FilterContents \X FilterTagLists] }

InitFilter ==
    /\ app = "notes"
    /\ items_db = << >>
    /\ items_next_id = 1
    /\ notes_db \in UNION { StoresOf(n) : n \in 0..MaxNotes }
    /\ notes_next_id = Len(notes_db) + 1
    /\ req = NoRequest
    /\ resp = NoResponse
    /\ clock = Len(notes_db)
    /\ creates = Len(notes_db)
    /\ deleted = {}
    /\ returned = notes_db
    /\ threads = << >>

FilterGetNotes == GetNotesOver(FilterSearches, FilterTags)

NextFilter == FilterGetNotes

SpecFilter == InitFilter /\ [][NextFilter]_vars

(* ---------------------- the services, side by side --------------------- *)

\* The handlers of the running application, by the name the claims use.
Get(d, n, k) == IF app = "main" THEN get_item(d, n, k) ELSE get_note(d, n, k)

List(d, n) == IF app = "main" THEN get_items(d, n) ELSE get_notes(d, n, None, None)

Create(d, n, p, now) ==
    IF app = "main" THEN create_item(d, n, p, now) ELSE create_note(d, n, p, now)

Update(d, n, k, p) ==
    IF app = "main" THEN update_item(d, n, k, p) ELSE update_note(d, n, k, p)

Delete(d, n, k) == IF app = "main" THEN delete_item(d, n, k) ELSE delete_note(d, n, k)

CreatePayloads == IF app = "main" THEN ItemCreate ELSE NoteCreate

UpdatePayloads == IF app = "main" THEN ItemUpdate ELSE NoteUpdate

\* The ids of the records of a store.
IdsOf(d) == {d[i].id : i \in 1..Len(d)}

Created == req.op = "create" /\ resp.status = 200

(* -------------------------------- claims ------------------------------- *)

\* C1: in each service the n-th successful create returns a record whose id is
\* exactly n, whatever deletes and updates came between the creates.
C1_NthCreateReturnsIdN ==
    Created => resp.body.id = creates

\* Reached: the third create, after a delete and an update.
C1_Witness ==
    /\ Created
    /\ creates = 3
    /\ resp.body.id = 3
    /\ deleted # {}

\* C2: once delete(k) has succeeded, no later store holds a record with id k:
\* list and get never return one, and no create hands k out again.
C2_DeletedIdNeverReturns ==
    \A k \in deleted :
        /\ k \notin IdsOf(db)
        /\ k \notin IdsOf(List(db, next_id).body)
        /\ Get(db, next_id, k).status = 404
        /\ Created => resp.body.id # k

\* Reached: a create right after the most recently created id was deleted and
\* the store had become empty.
C2_Witness ==
    /\ Created
    /\ creates >= 2
    /\ (creates - 1) \in deleted
    /\ Len(db) = 1

\* C3: no two records of a store have the same id.
C3_UniqueIds ==
    \A i, j \in 1..Len(db) : i # j => db[i].id # db[j].id

\* Reached: two records in the store, created around a delete.
C3_Witness ==
    /\ Created
    /\ Len(db) = 2
    /\ deleted # {}

\* The list without the records whose id is k, the others as they were.
Without(d, k) == SelectSeq(d, LAMBDA r : r.id # k)

\* A list request with no filter.
Unfiltered(request) ==
    /\ request.op = "list"
    /\ app = "notes" => (request.search = None /\ request.tag = None)

C4_Step ==
    /\ \A i, j \in 1..Len(db') : i < j => db'[i].id < db'[j].id
    /\ (req'.op = "create" /\ resp'.status = 200) => db' = Append(db, resp'.body)
    /\ (req'.op = "delete" /\ resp'.status = 200) =>
          /\ req'.id \in IdsOf(db)
          /\ db' = Without(db, req'.id)
    /\ Unfiltered(req') => (resp'.body = db' /\ db' = db)

\* C4: the store is in insertion order: a create puts the new record after all
\* the others, a successful delete(k) removes the record with id k and leaves
\* the others as they were and in their order, and a list returns that order.
C4_InsertionOrder == [][C4_Step]_vars

\* Reached: of three notes or items the middle one was deleted.
C4_Witness ==
    /\ req.op = "delete"
    /\ resp.status = 200
    /\ req.id = 2
    /\ Len(db) = 2
    /\ db[1].id = 1
    /\ db[2].id = 3

\* The fields an update may set.
Fields ==
    IF app = "main" THEN {"name", "description", "price"} ELSE {"title", "content", "tags"}

\* A payload field's value as the record holds it (description and tags are
\* held as the Optional they are given as).
Stored(f, o) == IF f \in {"description", "tags"} THEN o ELSE Val(o)

\* C5: a successful update changes, in the record with the id, exactly the
\* fields that are not null in the payload, to the payload's values: id and
\* created_at, the other fields, the other records, the order and the counter
\* stay; with no field in the payload it succeeds and returns the record as is.
C5_UpdateSetsOnlyGivenFields ==
    /\ \A k \in IdsOf(db), p \in UpdatePayloads :
          LET i == CHOOSE i \in 1..Len(db) : db[i].id = k
              r == Update(db, next_id, k, p)
          IN  /\ r.status = 200
              /\ r.next_id = next_id
              /\ Len(r.db) = Len(db)
              /\ \A j \in 1..Len(db) : j # i => r.db[j] = db[j]
              /\ DOMAIN r.db[i] = DOMAIN db[i]
              /\ r.db[i].id = db[i].id
              /\ r.db[i].created_at = db[i].created_at
              /\ \A f \in Fields :
                    r.db[i][f] = IF p[f] = None THEN db[i][f] ELSE Stored(f, p[f])
              /\ r.body = r.db[i]
              /\ (\A f \in Fields : p[f] = None) => (r.body = db[i] /\ r.db = db)
    /\ (req.op = "update" /\ resp.status = 200) =>
          /\ resp.body.id = req.id
          /\ \E i \in 1..Len(db) : db[i] = resp.body

\* Reached: an update of the second of three records has succeeded.
C5_Witness ==
    /\ req.op = "update"
    /\ resp.status = 200
    /\ req.id = 2
    /\ Len(db) = 3

C6_Step ==
    (req'.op \in {"get", "update", "delete"} /\ req'.id \notin IdsOf(db)) =>
        /\ resp'.status = 404
        /\ resp'.body = (IF app = "main" THEN "Item not found" ELSE "Note not found")
        /\ db' = db
        /\ next_id' = next_id

\* C6: get, update and delete of an id that no record of the store has (never
\* created, or deleted) answer 404 and leave the store, its order and the
\* counter as they were.
C6_NotFoundChangesNothing == [][C6_Step]_vars

\* Reached: an update of a deleted id answered 404, with records in the store.
C6_Witness ==
    /\ req.op = "update"
    /\ resp.status = 404
    /\ req.id \in deleted
    /\ Len(db) >= 1

\* C10: get(r.id) returns the record r that create returned, equal in every
\* field, until r.id is updated or deleted, whatever happens to other ids
\* (and after an update, the record the update returned); after a successful
\* delete(r.id), get(r.id) answers 404.
C10_RoundTrip ==
    /\ \A k \in DOMAIN returned :
          LET g == Get(db, next_id, k)
          IN  g.status = 200 /\ g.body = returned[k]
    /\ \A k \in deleted : Get(db, next_id, k).status = 404
    /\ (req.op = "get" /\ resp.status = 200) => resp.body = returned[req.id]
    /\ (req.op = "get" /\ req.id \in deleted) => resp.status = 404

\* Reached: the first record is read back as created, after two more creates
\* and the delete of another id.
C10_Witness ==
    /\ req.op = "get"
    /\ resp.status = 200
    /\ resp.body.id = 1
    /\ resp.body.created_at = 0
    /\ creates = 3
    /\ deleted = {2}
    /\ Len(db) = 2

(* ------------------------- claims on GET /notes ------------------------ *)

\* The pairs of an upper-case letter and its lower-case letter, both ways.
CasePairs ==
    UNION { { <<UpperCase[i], LowerCase[i]>>, <<LowerCase[i], UpperCase[i]>> } :
            i \in 1..Len(UpperCase) }

\* Two characters that are the same letter, whatever their case.
SameLetter(c, d) == c = d \/ <<c, d>> \in CasePairs

\* a and b are equal when case is ignored.
EqIgnoreCase(a, b) ==
    /\ Len(a) = Len(b)
    /\ \A i \in 1..Len(a) : SameLetter(a[i], b[i])

\* sub occurs in s when case is ignored.
ContainsIgnoreCase(sub, s) ==
    \E k \in 0..(Len(s) - Len(sub)) :
        \A i \in 1..Len(sub) : SameLetter(sub[i], s[k + i])

HasTag(n, tag) == \E i \in 1..Len(Val(n.tags)) : EqIgnoreCase(Val(n.tags)[i], tag)

Matches(n, search) ==
    ContainsIgnoreCase(search, n.title) \/ ContainsIgnoreCase(search, n.content)

\* The notes of the store, in its order, that have the tag / match the search.
Tagged(d, tag) == SelectSeq(d, LAMBDA n : HasTag(n, tag))

Matching(d, search) == SelectSeq(d, LAMBDA n : Matches(n, search))

Listed == req.op = "list" /\ app = "notes"

\* C7 as stated: for every tag string given as `tag` (no `search`), the result
\* is the notes, in store order, with a tag equal to it when case is ignored.
C7_AsStated ==
    (Listed /\ req.search = None /\ req.tag # None) =>
        resp.body = Tagged(notes_db, Val(req.tag))

\* C7, amended: for every non-empty tag string given as `tag` (no `search`),
\* the result is the notes, in store order, with a tag equal to it when case is
\* ignored (a tag that only contains it does not count); for the empty string
\* no filter is applied and the result is the whole store.
C7_TagFilter ==
    (Listed /\ req.search = None /\ req.tag # None) =>
        /\ resp.status = 200
        /\ resp.body = IF Val(req.tag) = << >>
                       THEN notes_db
                       ELSE Tagged(notes_db, Val(req.tag))

\* Reached: tag=Work returned the note tagged work, urgent and not the one
\* tagged homework.
C7_Witness ==
    /\ Listed
    /\ req.search = None
    /\ req.tag = Some(Work)
    /\ Len(notes_db) = 2
    /\ notes_db[1].tags = Some(<<homework>>)
    /\ notes_db[2].tags = Some(<<work, urgent>>)
    /\ resp.body = <<notes_db[2]>>

\* C8: for every search string given as `search` (no `tag`), the result is the
\* notes, in store order, whose title or content contains it when case is
\* ignored; when none does, the result is empty and there is no error.
C8_SearchFilter ==
    (Listed /\ req.search # None /\ req.tag = None) =>
        /\ resp.status = 200
        /\ resp.body = Matching(notes_db, Val(req.search))

\* Reached: search=Meet returned a note that matches by its content only and
\* not a note that matches by neither.
C8_Witness ==
    /\ Listed
    /\ req.search = Some(Meet)
    /\ req.tag = None
    /\ Len(notes_db) = 2
    /\ notes_db[1].title = me /\ notes_db[1].content = << >>
    /\ notes_db[2].title = me /\ notes_db[2].content = Meets
    /\ resp.body = <<notes_db[2]>>

\* The two filters of get_notes applied in the opposite order.
TagThenSearch(d, search, tag) ==
    LET results1 == IF Truthy(tag) THEN TagFilter(d, Val(tag)) ELSE d
    IN  IF Truthy(search) THEN SearchFilter(results1, Val(search)) ELSE results1

\* C9 as stated: with both `search` and `tag` given the result is the notes
\* that satisfy both predicates, in store order, and is the same with the
\* filters applied in the opposite order; with neither it is the whole store.
C9_AsStated ==
    /\ (Listed /\ req.search # None /\ req.tag # None) =>
          /\ resp.body = Tagged(Matching(notes_db, Val(req.search)), Val(req.tag))
          /\ resp.body = TagThenSearch(notes_db, req.search, req.tag)
    /\ (Listed /\ req.search = None /\ req.tag = None) => resp.body = notes_db

\* C9, amended: with both given the result is the notes, in store order, that
\* match the search and, unless the tag is the empty string, have the tag (an
\* empty tag filters nothing); it is the same with the filters applied in the
\* opposite order; with neither given it is the whole store.
C9_BothFilters ==
    /\ (Listed /\ req.search # None /\ req.tag # None) =>
          /\ resp.body =
                IF Val(req.tag) = << >>
                THEN Matching(notes_db, Val(req.search))
                ELSE Tagged(Matching(notes_db, Val(req.search)), Val(req.tag))
          /\ resp.body = TagThenSearch(notes_db, req.search, req.tag)
    /\ (Listed /\ req.search = None /\ req.tag = None) => resp.body = notes_db

\* Reached: search=EE with tag=Work returned the one note that has both, and
\* not the note that only matches the search.
C9_Witness ==
    /\ Listed
    /\ req.search = Some(EE)
    /\ req.tag = Some(Work)
    /\ Len(notes_db) = 2
    /\ Matches(notes_db[1], EE) /\ ~HasTag(notes_db[1], Work)
    /\ Matches(notes_db[2], EE) /\ HasTag(notes_db[2], Work)
    /\ resp.body = <<notes_db[2]>>

(* --------------------- claims on what updates can set ------------------ *)

\* The value v of field f is null: description and tags are stored as the
\* Optional they are given as, the other fields as the str or float they are.
IsNull(f, v) == f \in {"description", "tags"} /\ v = None

\* The value v of field f is the empty string or the empty list of tags.
IsEmpty(f, v) ==
    IF f = "price" THEN FALSE
    ELSE IF f \in {"description", "tags"} THEN v = Some(<< >>)
    ELSE v = << >>

\* The position in d of the record with id k.
IndexOf(d, k) == CHOOSE i \in 1..Len(d) : d[i].id = k

\* C11 as stated: a field that holds a value that is neither null nor empty
\* before an update holds neither null nor an empty value after it, whatever
\* the payload.
C11_AsStated ==
    \A k \in IdsOf(db), p \in UpdatePayloads :
        LET i == IndexOf(db, k)
            r == Update(db, next_id, k, p)
        IN  \A f \in Fields :
                (~IsNull(f, db[i][f]) /\ ~IsEmpty(f, db[i][f])) =>
                    (~IsNull(f, r.db[i][f]) /\ ~IsEmpty(f, r.db[i][f]))

\* C11, amended: no update sets a field to null (a field that is not null
\* before an update is not null after it, and a null in the payload leaves the
\* field as it was); but an update whose payload gives a field the empty
\* string, or tags the empty list, sets the field to that empty value.
C11_UpdateNeverNulls ==
    \A k \in IdsOf(db), p \in UpdatePayloads :
        LET i == IndexOf(db, k)
            r == Update(db, next_id, k, p)
        IN  \A f \in Fields :
                /\ ~IsNull(f, db[i][f]) => ~IsNull(f, r.db[i][f])
                /\ p[f] = None => r.db[i][f] = db[i][f]
                /\ (p[f] # None /\ IsEmpty(f, Stored(f, p[f]))) =>
                      IsEmpty(f, r.db[i][f])

\* Reached: an update has left a record with a description, and a text field
\* that is not empty, which a further update can empty but cannot null.
C11_Witness ==
    /\ req.op = "update"
    /\ resp.status = 200
    /\ \/ /\ app = "main"
          /\ resp.body.description # None
          /\ resp.body.name # << >>
       \/ /\ app = "notes"
          /\ resp.body.title # << >>
          /\ resp.body.tags # Some(<< >>)
    /\ \E p \in UpdatePayloads, f \in Fields :
          /\ p[f] # None
          /\ IsEmpty(f, Stored(f, p[f]))
          /\ ~IsEmpty(f, resp.body[f])

\* C12: in the items service every stored item's name is a non-empty text.
C12_NameNonEmpty ==
    app = "main" => \A i \in 1..Len(items_db) : items_db[i].name # << >>

(* -------------------------- payload validation ------------------------- *)

\* Requests handled per run in SpecValid: the counter is not advanced past
\* MaxPosts + 1.
MaxPosts == 2

\* A field of a JSON body as it arrives: left out, null, of a type the
\* declared type does not accept, or a value v of the declared type.
Absent == [kind |-> "absent", v |-> {}]

Null == [kind |-> "null", v |-> {}]

Bad == [kind |-> "bad", v |-> {}]

Ok(v) == [kind |-> "ok", v |-> {v}]

Raw(S) == {Absent, Null, Bad} \cup {Ok(v) : v \in S}

\* A field declared `f: T`: it must be there, with a value of the type.
ValidRequired(x) == x.kind = "ok"

\* Mutant: a value of the wrong type is taken for null.
ValidOptional_lenient(x) == TRUE

\* A field declared `f: Optional[T] = default`: it may be left out or null.
ValidOptional(x) == x.kind # "bad"

\* The value pydantic gives a valid optional field: the default when it is
\* left out, None when it is null.
OptionalValue(x, default) ==
    IF x.kind = "ok" THEN x.v ELSE IF x.kind = "absent" THEN default ELSE None

RawItemCreate == [name : Raw(Names), description : Raw(Descriptions), price : Raw(Prices)]

RawItemUpdate ==
    [name : Raw(NewNames), description : Raw(Descriptions), price : Raw(NewPrices)]

RawNoteCreate == [title : Raw(Titles), content : Raw(Contents), tags : Raw(TagLists)]

RawNoteUpdate ==
    [title : Raw(NewTitles), content : Raw(NewContents), tags : Raw(NewTagLists)]

\* The answer to a body that fails validation; the handler is not called.
Unprocessable(d, n) == Result(d, n, 422, "Unprocessable Entity")

\* POST /items with a body: the body is validated against ItemCreate, and
\* create_item is called with the model when it is valid.
post_items(d, n, body, now) ==
    IF /\ ValidRequired(body.name)
       /\ ValidOptional(body.description)
       /\ ValidRequired(body.price)
    THEN create_item(d, n,
                     [name |-> Val(body.name.v),
                      description |-> OptionalValue(body.description, None),
                      price |-> Val(body.price.v)], now)
    ELSE Unprocessable(d, n)

\* PUT /items/{item_id} with a body, validated against ItemUpdate.
put_item(d, n, item_id, body) ==
    IF /\ ValidOptional(body.name)
       /\ ValidOptional(body.description)
       /\ ValidOptional(body.price)
    THEN update_item(d, n, item_id,
                     [name |-> OptionalValue(body.name, None),
                      description |-> OptionalValue(body.description, None),
                      price |-> OptionalValue(body.price, None)])
    ELSE Unprocessable(d, n)

\* POST /notes with a body, validated against NoteCreate (tags defaults to []).
post_notes(d, n, body, now) ==
    IF /\ ValidRequired(body.title)
       /\ ValidRequired(body.content)
       /\ ValidOptional(body.tags)
    THEN create_note(d, n,
                     [title |-> Val(body.title.v),
                      content |-> Val(body.content.v),
                      tags |-> OptionalValue(body.tags, Some(<< >>))], now)
    ELSE Unprocessable(d, n)

\* PUT /notes/{note_id} with a body, validated against NoteUpdate.
put_note(d, n, note_id, body) ==
    IF /\ ValidOptional(body.title)
       /\ ValidOptional(body.content)
       /\ ValidOptional(body.tags)
    THEN update_note(d, n, note_id,
                     [title |-> OptionalValue(body.title, None),
                      content |-> OptionalValue(body.content, None),
                      tags |-> OptionalValue(body.tags, None)])
    ELSE Unprocessable(d, n)

PostItems ==
    /\ items_next_id <= MaxPosts
    /\ \E body \in RawItemCreate :
        ItemsStep([op |-> "create"], post_items(items_db, items_next_id, body, clock))

PutItem ==
    \E item_id \in 1..MaxPosts, body \in RawItemUpdate :
        ItemsStep([op |-> "update", id |-> item_id],
                  put_item(items_db, items_next_id, item_id, body))

PostNotes ==
    /\ notes_next_id <= MaxPosts
    /\ \E body \in RawNoteCreate :
        NotesStep([op |-> "create"], post_notes(notes_db, notes_next_id, body, clock))

PutNote ==
    \E note_id \in 1..MaxPosts, body \in RawNoteUpdate :
        NotesStep([op |-> "update", id |-> note_id],
                  put_note(notes_db, notes_next_id, note_id, body))

NextValid ==
    \/ PostItems
    \/ PutItem
    \/ PostNotes
    \/ PutNote

SpecValid == Init /\ [][NextValid]_vars

\* The two endpoints that take a body, of the running application.
Post(d, n, body, now) ==
    IF app = "main" THEN post_items(d, n, body, now) ELSE post_notes(d, n, body, now)

Put(d, n, k, body) ==
    IF app = "main" THEN put_item(d, n, k, body) ELSE put_note(d, n, k, body)

RawCreatePayloads == IF app = "main" THEN RawItemCreate ELSE RawNoteCreate

RawUpdatePayloads == IF app = "main" THEN RawItemUpdate ELSE RawNoteUpdate

\* The fields a create must give.
RequiredFields == IF app = "main" THEN {"name", "price"} ELSE {"title", "content"}

\* A body fails validation: a field has a value of the wrong type (null, for a
\* required field), or a required field is missing.
Malformed(body, required) ==
    \E f \in DOMAIN body :
        \/ body[f].kind = "bad"
        \/ f \in required /\ body[f].kind \in {"absent", "null"}

\* The result r rejects the request and leaves the store d and counter n.
Rejected(r, d, n) ==
    /\ r.status = 422
    /\ r.db = d
    /\ r.next_id = n

\* C13: a create or update whose body fails validation (a required field
\* missing, a field of the wrong type) is answered 422 with the store, its
\* order and the id counter unchanged, whether or not the id of an update is
\* stored; the rejected creates of a run consume no id.
C13_InvalidPayloadRejected ==
    /\ \A body \in RawCreatePayloads :
          Malformed(body, RequiredFields) => Rejected(Post(db, next_id, body, clock), db, next_id)
    /\ \A k \in 1..MaxPosts, body \in RawUpdatePayloads :
          Malformed(body, {}) => Rejected(Put(db, next_id, k, body), db, next_id)
    /\ resp.status = 422 => req.op \in {"create", "update"}
    /\ next_id = creates + 1
    /\ Len(db) = creates

\* Reached: a create was rejected after another had succeeded, and the next
\* id is still 2.
C13_Witness ==
    /\ req.op = "create"
    /\ resp.status = 422
    /\ Len(db) = 1
    /\ db[1].id = 1
    /\ next_id = 2

(* ------------------ notes.py: requests that overlap -------------------- *)

\* notes.py declares its handlers with `def`, so each request runs in a thread
\* of the pool and the threads interleave between the steps of a handler.

\* Threads that are inside create_note at once in SpecCreateRace.
MaxThreads == 2

Threads == 1..MaxThreads

\* The bodies the overlapping creates are given.
RaceNotes == [title : {<<"a">>, << >>}, content : {<<"b">>}, tags : {None}]

IdleCreate == [pc |-> "build", new_note |-> {}, tmp |-> 0]

InitCreateRace ==
    /\ app = "notes"
    /\ items_db = << >>
    /\ items_next_id = 1
    /\ notes_db = << >>
    /\ notes_next_id = 1
    /\ req = NoRequest
    /\ resp = NoResponse
    /\ clock = 0
    /\ creates = 0
    /\ deleted = {}
    /\ returned = << >>
    /\ threads = [t \in Threads |-> IdleCreate]

\* new_note = {"id": next_id, ..., "created_at": datetime.now()}
BuildNote(t) ==
    /\ threads[t].pc = "build"
    /\ \E note \in RaceNotes :
          threads' = [threads EXCEPT ![t] =
              [pc |-> "append",
               new_note |-> Some(create_note(notes_db, notes_next_id, note, clock).body),
               tmp |-> 0]]
    /\ clock' = clock + 1
    /\ UNCHANGED <<app, items_db, items_next_id, notes_db, notes_next_id, req, resp,
                   creates, deleted, returned>>

\* notes_db.append(new_note)
AppendNote(t) ==
    /\ threads[t].pc = "append"
    /\ notes_db' = Append(notes_db, Val(threads[t].new_note))
    /\ threads' = [threads EXCEPT ![t].pc = "read"]
    /\ UNCHANGED <<app, items_db, items_next_id, notes_next_id, req, resp, clock,
                   creates, deleted, returned>>

\* next_id += 1, first half: the value of next_id is loaded.
ReadNextId(t) ==
    /\ threads[t].pc = "read"
    /\ threads' = [threads EXCEPT ![t].pc = "write", ![t].tmp = notes_next_id]
    /\ UNCHANGED <<app, items_db, items_next_id, notes_db, notes_next_id, req, resp,
                   clock, creates, deleted, returned>>

\* next_id += 1, second half: the sum is stored; then `return new_note`.
WriteNextId(t) ==
    /\ threads[t].pc = "write"
    /\ notes_next_id' = threads[t].tmp + 1
    /\ threads' = [threads EXCEPT ![t].pc = "done"]
    /\ req' = [op |-> "create"]
    /\ resp' = [status |-> 200, body |-> Val(threads[t].new_note)]
    /\ creates' = creates + 1
    /\ returned' = Returned([op |-> "create"],
                            Result(notes_db, notes_next_id', 200, Val(threads[t].new_note)))
    /\ UNCHANGED <<app, items_db, items_next_id, notes_db, clock, deleted>>

NextCreateRace ==
    \E t \in Threads :
        \/ BuildNote(t)
        \/ AppendNote(t)
        \/ ReadNextId(t)
        \/ WriteNextId(t)

SpecCreateRace == InitCreateRace /\ [][NextCreateRace]_vars

\* C14: with create_note requests running as threads whose steps interleave,
\* no two notes of notes_db have the same id and no id is skipped: every id
\* below the counter is the id of a stored note.
C14_UniqueIdsUnderConcurrency ==
    /\ \A i, j \in 1..Len(notes_db) : i # j => notes_db[i].id # notes_db[j].id
    /\ \A k \in 1..(notes_next_id - 1) : k \in IdsOf(notes_db)

\* Notes in the store, at most, when the overlapping deletes of SpecDeleteRace
\* begin.
MaxStored == 3

IdleDelete == [pc |-> "scan", note_id |-> 0, i |-> 0, removed |-> {}]

\* The store that up to MaxStored creates have left, and threads about to
\* delete.
InitDeleteRace ==
    /\ app = "notes"
    /\ items_db = << >>
    /\ items_next_id = 1
    /\ \E n \in 1..MaxStored :
          notes_db = [k \in 1..n |->
                         [id |-> k, title |-> <<"a">>, content |-> <<"b">>, tags |-> Some(<< >>),
                          created_at |-> k - 1]]
    /\ notes_next_id = Len(notes_db) + 1
    /\ req = NoRequest
    /\ resp = NoResponse
    /\ clock = Len(notes_db)
    /\ creates = Len(notes_db)
    /\ deleted = {}
    /\ returned = notes_db
    /\ threads = [t \in Threads |-> IdleDelete]

\* A thread's handler ends with response r to request request.
Respond(request, r) ==
    /\ req' = request
    /\ resp' = [status |-> r.status, body |-> r.body]
    /\ deleted' = IF request.op = "delete" /\ r.status = 200
                  THEN deleted \cup {request.id} ELSE deleted
    /\ returned' = Returned(request, r)

\* for i, n in enumerate(notes_db): if n["id"] == note_id: the index of the
\* match is found, or the loop ends and 404 is raised.
ScanNotes(t) ==
    /\ threads[t].pc = "scan"
    /\ \E note_id \in 1..MaxStored :
          LET i == FirstIndex(notes_db, note_id)
          IN  IF i = 0
              THEN /\ threads' = [threads EXCEPT ![t].pc = "done", ![t].note_id = note_id]
                   /\ Respond([op |-> "delete", id |-> note_id],
                              Result(notes_db, notes_next_id, 404, "Note not found"))
              ELSE /\ threads' = [threads EXCEPT ![t].pc = "pop", ![t].note_id = note_id,
                                                 ![t].i = i]
                   /\ UNCHANGED <<req, resp, deleted, returned>>
    /\ UNCHANGED <<app, items_db, items_next_id, notes_db, notes_next_id, clock, creates>>

\* notes_db.pop(i); return {"message": ...}: the note now at the index is
\* removed; pop raises IndexError when the list has become too short, and the
\* request is answered 500.
PopNote(t) ==
    /\ threads[t].pc = "pop"
    /\ LET i == threads[t].i
           request == [op |-> "delete", id |-> threads[t].note_id]
       IN  IF i <= Len(notes_db)
           THEN /\ notes_db' = Pop(notes_db, i)
                /\ threads' = [threads EXCEPT ![t].pc = "done",
                                              ![t].removed = {notes_db[i].id}]
                /\ Respond(request,
                           Result(notes_db', notes_next_id, 200,
                                  [message |-> "Note deleted successfully"]))
           ELSE /\ notes_db' = notes_db
                /\ threads' = [threads EXCEPT ![t].pc = "done"]
                /\ Respond(request,
                           Result(notes_db, notes_next_id, 500, "Internal Server Error"))
    /\ UNCHANGED <<app, items_db, items_next_id, notes_next_id, clock, creates>>

NextDeleteRace ==
    \E t \in Threads :
        \/ ScanNotes(t)
        \/ PopNote(t)

SpecDeleteRace == InitDeleteRace /\ [][NextDeleteRace]_vars

\* C15: with delete_note requests running as threads whose two steps (scan
\* for the index, pop the index) interleave, a delete_note(k) removes no note
\* whose id is not k, and of the requests for the same k at most one removes
\* anything.
C15_DeleteRemovesOnlyItsId ==
    /\ \A t \in Threads : threads[t].removed \subseteq {threads[t].note_id}
    /\ \A t, u \in Threads :
          (t # u /\ threads[t].note_id = threads[u].note_id) =>
              (threads[t].removed = {} \/ threads[u].removed = {})

(* ----------------------- claims on tags and counter -------------------- *)

\* The bodies of POST /notes that are valid and leave tags out or give null.
UntaggedBodies ==
    {body \in RawNoteCreate :
        /\ ValidRequired(body.title)
        /\ ValidRequired(body.content)
        /\ body.tags.kind \in {"absent", "null"}}

\* C16: in the notes service the tags of every stored note are a sequence,
\* never null: a create whose body leaves tags out, or gives null, stores the
\* empty sequence, and no update leaves null in tags.
C16_TagsNeverNull ==
    app = "notes" =>
        /\ \A i \in 1..Len(notes_db) : notes_db[i].tags # None
        /\ \A body \in UntaggedBodies :
              LET r == post_notes(notes_db, notes_next_id, body, clock)
              IN  /\ r.status = 200
                  /\ r.body.tags = Some(<< >>)
                  /\ r.db[Len(r.db)].tags = Some(<< >>)
        /\ \A k \in IdsOf(notes_db), p \in NoteUpdate :
              LET r == update_note(notes_db, notes_next_id, k, p)
              IN  \A i \in 1..Len(r.db) : r.db[i].tags # None

\* Reached: a create has stored the empty sequence as the tags of the second
\* note, next to a note with a tag.
C16_Witness ==
    /\ app = "notes"
    /\ Created
    /\ Len(notes_db) = 2
    /\ notes_db[1].tags = Some(<< <<"x">> >>)
    /\ notes_db[2].tags = Some(<< >>)
    /\ resp.body = notes_db[2]

\* C17: with requests handled one at a time, next_id is greater than the id
\* of every stored record and is 1 plus the number of creates that have
\* succeeded (so a step that is not a successful create, an update among
\* them, leaves it as it is); a create moves it up by exactly 1, and delete,
\* get, list and the filters of GET /notes hand it back unchanged.
C17_CounterAboveIds ==
    /\ \A i \in 1..Len(db) : db[i].id < next_id
    /\ next_id = creates + 1
    /\ \A p \in CreatePayloads : Create(db, next_id, p, clock).next_id = next_id + 1
    /\ \A k \in Ids :
          /\ Get(db, next_id, k).next_id = next_id
          /\ Delete(db, next_id, k).next_id = next_id
    /\ List(db, next_id).next_id = next_id
    /\ app = "notes" =>
          \A search \in Searches, tag \in Tags :
              get_notes(db, next_id, search, tag).next_id = next_id

\* Reached: the third create, after the two records before it were deleted:
\* the counter is 4 with one record, of id 3, in the store.
C17_Witness ==
    /\ Created
    /\ creates = 3
    /\ deleted = {1, 2}
    /\ Len(db) = 1
    /\ db[1].id = 3
    /\ next_id = 4

====
